---- MODULE Spec2Model ----
(***************************************************************************)
(* A model of the VE.Direct frame codec of jordens/vedirect                *)
(* (src/src/vedirect.rs): the streaming decoder FrameDe, the encoder       *)
(* FrameSer, the checksum, Command::as_frame and Response::try_from.       *)
(* Bytes are the integers 0..255; a buffer (Vec<u8>) is a sequence of      *)
(* bytes; u8 arithmetic is taken modulo 256.                               *)
(***************************************************************************)
EXTENDS Integers, Sequences, FiniteSets, TLC

VARIABLES
    state,   \* FrameDe.state
    data,    \* Frame.data, the buffer the decoder borrows
    ret,     \* what the last FrameDe::push returned
    fed,     \* every byte pushed into the current decoder, in order
    unit,    \* the bytes pushed since (and including) the last push taken in Start
    gunit,   \* the stream's current unit as the framing rules alone delimit it
    gwf,     \* the stream so far is a concatenation of well-formed units
    gend,    \* the last byte pushed ended a well-formed unit
    nfree,   \* freely chosen bytes pushed into the current decoder
    nerr,    \* pushes into the current decoder that returned an error
    mk,      \* bytes of the text marker emitted so far (0: none in progress)
    cmd,     \* the Command being encoded
    frame,   \* the Frame built by Command::as_frame / under FrameSer
    sstate,  \* FrameSer.state
    spos,    \* FrameSer.pos
    wire,    \* the bytes FrameSer::next has returned so far
    nnone,   \* the calls of FrameSer::next that returned None so far
    rx,      \* the response bytes received for the command
    req,     \* Frame::try_from on the request bytes
    rsp,     \* Frame::try_from on the response bytes
    resp,    \* Response::try_from on a frame
    prev,    \* the bytes fed to the earlier decoder of the Frame
    redo,    \* the well-formed unit fed to the decoder made by a later de()
    vin,     \* the bytes given to Value::guess
    val,     \* a Value: what guess returned, or the value to serialize
    vout,    \* the bytes Value::ser appended
    val2,    \* Value::guess on the bytes Value::ser appended
    c8,      \* the byte given to nibble and to hex
    nib,     \* nibble(c8)
    hx,      \* hex(c8)
    rt,      \* nibble of the digit hex(c8) returned
    rd,      \* the bytes the reader given to FrameDe::read still holds
    rres,    \* what the last FrameDe::read returned: "true", "false" or "err"
    rn,      \* the bytes the last FrameDe::read took from the reader
    lib,     \* the Frame of lib.rs fed the same bytes as the decoder
    pc       \* position of the exchange / of the parse

vars == <<state, data, ret, fed, unit, gunit, gwf, gend, nfree, nerr, mk,
          cmd, frame, sstate, spos, wire, nnone, rx, req, rsp, resp,
          prev, redo, vin, val, vout, val2, c8, nib, hx, rt, rd, rres, rn, lib, pc>>

decvars == <<state, data, ret, fed, unit, gunit, gwf, gend, nfree, nerr, mk>>
cmdvars == <<cmd, frame, sstate, spos, wire, nnone, rx, req, rsp>>
readvars == <<rd, rres, rn>>
auxvars == <<prev, redo, vin, val, vout, val2, c8, nib, hx, rt, readvars, lib>>

----------------------------------------------------------------------------
(* Bounds of the model *)

\* freely chosen bytes pushed into one decoder
MaxFree == 5
\* bytes pushed into one decoder
MaxLen == 15
\* payload bytes of a frame handed to Response::try_from
MaxPayload == 3
\* value bytes after the flags byte of an Update frame
MaxTail == 5
\* bytes of a frame handed to Frame::ser
MaxFrame == 3
\* bytes fed to a decoder before de() is called again on its Frame
MaxPrev == 3
\* bytes given to Value::guess
MaxValue == 5
\* bytes the reader given to FrameDe::read holds
MaxRead == 4
\* bytes fed to both decoders
MaxBoth == 7
\* calls of FrameSer::next that return None
MaxNone == 3

----------------------------------------------------------------------------
(* Bytes and u8 arithmetic *)

Byte == 0..255

Colon == 58
Newline == 10

\* b"\nChecksum\t"
Marker == <<10, 67, 104, 101, 99, 107, 115, 117, 109, 9>>

RECURSIVE BitOr(_, _)
BitOr(a, b) ==
    IF a = 0 THEN b
    ELSE IF b = 0 THEN a
    ELSE (IF a % 2 = 1 \/ b % 2 = 1 THEN 1 ELSE 0) + 2 * BitOr(a \div 2, b \div 2)

RECURSIVE BitAnd(_, _)
BitAnd(a, b) ==
    IF a = 0 \/ b = 0 THEN 0
    ELSE (IF a % 2 = 1 /\ b % 2 = 1 THEN 1 ELSE 0) + 2 * BitAnd(a \div 2, b \div 2)

\* u8 << 4 and u8 >> 4
Shl4(a) == (a * 16) % 256
Shr4(a) == a \div 16

wrapping_add(a, b) == (a + b) % 256
wrapping_sub(a, b) == (a - b + 256) % 256

\* slice.ends_with(needle)
ends_with(s, needle) ==
    /\ Len(s) >= Len(needle)
    /\ SubSeq(s, Len(s) - Len(needle) + 1, Len(s)) = needle

\* Results: Ok(v) and Err(e), e an Error of vedirect.rs:98-118
Ok(v) == [ok |-> TRUE, v |-> v, kind |-> "none", c |-> 0]
Err(kind, c) == [ok |-> FALSE, v |-> 0, kind |-> kind, c |-> c]

\* Result<Frame, Error>: f is the frame's buffer
FOk(d) == [ok |-> TRUE, f |-> d, kind |-> "none", c |-> 0]
FErr(kind, c) == [ok |-> FALSE, f |-> <<>>, kind |-> kind, c |-> c]

----------------------------------------------------------------------------
(* NibbleCodec *)

nibble_swapcase(c) ==
    IF c \in 48..57 THEN Ok(c - 48)
    ELSE IF c \in 65..70 THEN Ok(c - 65 + 10)
    ELSE Err("Hex", c)

nibble(c) ==
    IF c \in 48..57 THEN Ok(c - 48)
    ELSE IF c \in 65..70 THEN Ok(c - 65 + 10)
    ELSE IF c \in 97..102 THEN Ok(c - 97 + 10)
    ELSE Err("Hex", c)

hex_lower(c) ==
    IF c \in 0..9 THEN Ok(48 + c)
    ELSE IF c \in 10..15 THEN Ok(97 + (c - 10))
    ELSE Err("Hex", c)

hex(c) ==
    IF c \in 0..9 THEN Ok(48 + c)
    ELSE IF c \in 10..15 THEN Ok(65 + (c - 10))
    ELSE Err("Hex", c)

----------------------------------------------------------------------------
(* Frame: checksum and validity *)

RECURSIVE fold_add(_, _)
fold_add(a, s) == IF s = <<>> THEN a ELSE fold_add(wrapping_add(a, Head(s)), Tail(s))

checksum(d) == fold_add(0, d)

valid_only55(d) == d # <<>> /\ checksum(d) = 85

valid(d) == d # <<>> /\ checksum(d) \in {85, 0}

----------------------------------------------------------------------------
(* FrameDe::push, as a function of the decoder (state, data) and the byte:  *)
(* the decoder after the call and the value returned.  An early return by   *)
(* `?' leaves state and data as the statements before it left them.         *)

Dec(st, d, r) == [state |-> st, data |-> d, ret |-> r]

push_Start_keep(d, c) ==
    IF c = Colon
    THEN Dec("LowNibble", Append(d, 0), Ok(0))
    ELSE Dec("Text", Append(d, c), Ok(0))

\* the hex branch leaves the buffer empty
push_Start_bare(d, c) ==
    IF c = Colon
    THEN Dec("LowNibble", <<>>, Ok(0))
    ELSE Dec("Text", <<c>>, Ok(0))

push_Start(d, c) ==
    IF c = Colon
    THEN Dec("LowNibble", <<0>>, Ok(0))
    ELSE Dec("Text", <<c>>, Ok(0))

\* a rejected byte sends the decoder back to Start
push_LowNibble_reset(d, c) ==
    LET n == nibble(c)
        last == Len(d)
    IN  IF d = <<>> THEN Dec("LowNibble", d, Err("Panic", 0))
        ELSE IF ~n.ok THEN Dec("Start", d, n)
        ELSE Dec("HighNibble", [d EXCEPT ![last] = BitOr(d[last], n.v)], Ok(0))

\* last_mut().unwrap() on an empty buffer is a panic (kind "Panic")
push_LowNibble(d, c) ==
    LET n == nibble(c)
        last == Len(d)
    IN  IF d = <<>> THEN Dec("LowNibble", d, Err("Panic", 0))
        ELSE IF ~n.ok THEN Dec("LowNibble", d, n)
        ELSE Dec("HighNibble", [d EXCEPT ![last] = BitOr(d[last], n.v)], Ok(0))

push_HighNibble_lenient(d, c) ==
    LET n == nibble(c)
    IN  IF c = Newline \/ ~n.ok THEN Dec("Start", d, Ok(0))
        ELSE Dec("LowNibble", Append(d, Shl4(n.v)), Ok(0))

push_HighNibble(d, c) ==
    LET n == nibble(c)
    IN  IF c = Newline THEN Dec("Start", d, Ok(0))
        ELSE IF ~n.ok THEN Dec("HighNibble", d, n)
        ELSE Dec("LowNibble", Append(d, Shl4(n.v)), Ok(0))

push_Text_eager(d, c) ==
    Dec(IF ends_with(Append(d, c), Marker) THEN "Start" ELSE "Text", Append(d, c), Ok(0))

push_Text(d, c) ==
    Dec(IF ends_with(d, Marker) THEN "Start" ELSE "Text", Append(d, c), Ok(0))

push(st, d, c) ==
    CASE st = "Start" -> push_Start(d, c)
      [] st = "LowNibble" -> push_LowNibble(d, c)
      [] st = "HighNibble" -> push_HighNibble(d, c)
      [] st = "Text" -> push_Text(d, c)

done_nonempty(st, d) == st = "Start" /\ d # <<>>

done(st, d) == st = "Start"

----------------------------------------------------------------------------
(* impl TryFrom<&[u8]> for Frame: a fresh Frame, push every byte (the first *)
(* failing push is returned), then Length / Checksum / Ok.                  *)

RECURSIVE try_push(_, _, _)
try_push(st, d, bytes) ==
    IF bytes = <<>> THEN Dec(st, d, Ok(0))
    ELSE LET p == push(st, d, Head(bytes))
         IN  IF ~p.ret.ok THEN p ELSE try_push(p.state, p.data, Tail(bytes))

try_from_nolength(bytes) ==
    LET p == try_push("Start", <<>>, bytes)
    IN  IF ~p.ret.ok THEN FErr(p.ret.kind, p.ret.c)
        ELSE IF ~valid(p.data) THEN FErr("Checksum", 0)
        ELSE FOk(p.data)

try_from(bytes) ==
    LET p == try_push("Start", <<>>, bytes)
    IN  IF ~p.ret.ok THEN FErr(p.ret.kind, p.ret.c)
        ELSE IF ~done(p.state, p.data) THEN FErr("Length", 0)
        ELSE IF ~valid(p.data) THEN FErr("Checksum", 0)
        ELSE FOk(p.data)

----------------------------------------------------------------------------
(* FrameDe::read: push the reader's bytes until done() or the end of input. *)
(* The reader is a byte slice; n counts the bytes taken from it.            *)

Rd(st, d, res, rest, n) == [state |-> st, data |-> d, res |-> res, rest |-> rest, n |-> n]

RECURSIVE read(_, _, _, _)
read(st, d, bytes, n) ==
    IF done(st, d) THEN Rd(st, d, "true", bytes, n)
    ELSE IF bytes = <<>> THEN Rd(st, d, "false", bytes, n)
    ELSE LET p == push(st, d, Head(bytes))
         IN  IF ~p.ret.ok THEN Rd(p.state, p.data, "err", Tail(bytes), n + 1)
             ELSE read(p.state, p.data, Tail(bytes), n + 1)

----------------------------------------------------------------------------
(* The decoder of lib.rs: Frame::push on a Frame with the fields data (at   *)
(* most LibCapacity bytes), check, id, pending and state; ret is what the   *)
(* last push returned.  Its errors carry no byte.                           *)

LibCapacity == 64

LibFrame(st, d, check, id, pending, r) ==
    [state |-> st, data |-> d, check |-> check, id |-> id, pending |-> pending, ret |-> r]

LibDefault == LibFrame("Start", <<>>, 0, 0, 0, Ok(0))

lib_nibble(c) ==
    IF c \in 48..57 THEN Ok(c - 48)
    ELSE IF c \in 65..70 THEN Ok(c - 65 + 10)
    ELSE IF c \in 97..102 THEN Ok(c - 97 + 10)
    ELSE Err("Hex", 0)

lib_push(f, c) ==
    CASE f.state = "Start" ->
            [f EXCEPT !.state = IF c = Colon THEN "Id" ELSE "Start", !.ret = Ok(0)]
      [] f.state = "Id" ->
            LET n == lib_nibble(c)
            IN  IF ~n.ok THEN [f EXCEPT !.ret = n]
                ELSE [f EXCEPT !.id = n.v, !.data = <<>>, !.check = n.v,
                               !.state = "High", !.ret = Ok(0)]
      [] f.state = "High" ->
            LET n == lib_nibble(c)
            IN  IF c = Newline THEN [f EXCEPT !.state = "Start", !.ret = Ok(0)]
                ELSE IF ~n.ok THEN [f EXCEPT !.ret = n]
                ELSE [f EXCEPT !.pending = Shl4(n.v), !.state = "Low", !.ret = Ok(0)]
      [] f.state = "Low" ->
            LET n == lib_nibble(c)
                x == BitOr(f.pending, n.v)
            IN  IF ~n.ok THEN [f EXCEPT !.ret = n]
                ELSE IF Len(f.data) >= LibCapacity THEN [f EXCEPT !.ret = Err("Length", 0)]
                ELSE [f EXCEPT !.data = Append(f.data, x),
                               !.check = wrapping_add(f.check, x),
                               !.state = "High", !.ret = Ok(0)]

----------------------------------------------------------------------------
(* Value: the tagged union of vedirect.rs:420-434.  n is the number (for    *)
(* the 32-bit variants its low 16 bits, h the high 16 bits, signed for      *)
(* I32); b the bytes of Ascii and Other.                                    *)

Val(tag, h, n, b) == [tag |-> tag, h |-> h, n |-> n, b |-> b]
VEmpty == Val("Empty", 0, 0, <<>>)
VU8(n) == Val("U8", 0, n, <<>>)
VI8(n) == Val("I8", 0, n, <<>>)
VU16(n) == Val("U16", 0, n, <<>>)
VI16(n) == Val("I16", 0, n, <<>>)
VU32(h, n) == Val("U32", h, n, <<>>)
VI32(h, n) == Val("I32", h, n, <<>>)
VAscii(b) == Val("Ascii", 0, 0, b)
VOther(b) == Val("Other", 0, 0, b)

\* u16::to_le_bytes / from_le_bytes (of the two's complement for a signed n)
to_le_bytes(n) == <<n % 256, (n \div 256) % 256>>
from_le_bytes(b) == b[1] + 256 * b[2]

\* multi-byte numbers read big-endian
guess_be(b) ==
    CASE Len(b) = 0 -> VEmpty
      [] Len(b) = 1 -> VU8(b[1])
      [] Len(b) = 2 -> VU16(b[2] + 256 * b[1])
      [] Len(b) = 4 -> VU32(b[2] + 256 * b[1], b[4] + 256 * b[3])
      [] OTHER -> VOther(b)

guess(b) ==
    CASE Len(b) = 0 -> VEmpty
      [] Len(b) = 1 -> VU8(b[1])
      [] Len(b) = 2 -> VU16(from_le_bytes(b))
      [] Len(b) = 4 -> VU32(from_le_bytes(SubSeq(b, 3, 4)), from_le_bytes(SubSeq(b, 1, 2)))
      [] OTHER -> VOther(b)

\* multi-byte numbers written big-endian
ser_value_be(v) ==
    CASE v.tag = "Empty" -> <<>>
      [] v.tag = "U8" -> <<v.n>>
      [] v.tag = "I8" -> <<v.n % 256>>
      [] v.tag \in {"U16", "I16"} -> <<(v.n \div 256) % 256, v.n % 256>>
      [] v.tag \in {"U32", "I32"} ->
            <<(v.h \div 256) % 256, v.h % 256, (v.n \div 256) % 256, v.n % 256>>
      [] v.tag = "Ascii" -> v.b
      [] v.tag = "Other" -> v.b

\* Value::ser: the bytes appended to the buffer
ser_value(v) ==
    CASE v.tag = "Empty" -> <<>>
      [] v.tag = "U8" -> <<v.n>>
      [] v.tag = "I8" -> <<v.n % 256>>
      [] v.tag = "U16" -> to_le_bytes(v.n)
      [] v.tag = "I16" -> to_le_bytes(v.n)
      [] v.tag = "U32" -> to_le_bytes(v.n) \o to_le_bytes(v.h)
      [] v.tag = "I32" -> to_le_bytes(v.n) \o to_le_bytes(v.h)
      [] v.tag = "Ascii" -> v.b
      [] v.tag = "Other" -> v.b

----------------------------------------------------------------------------
(* The enumerations *)

\* CommandId as u8
CommandId(id) ==
    CASE id = "Boot" -> 0
      [] id = "Ping" -> 1
      [] id = "Version" -> 3
      [] id = "Product" -> 4
      [] id = "Restart" -> 6
      [] id = "Get" -> 7
      [] id = "Set" -> 8
      [] id = "Async" -> 10

\* the codes ResponseId::try_from accepts
ResponseId == {1, 3, 4, 5, 7, 8, 10}

\* the codes ErrorId::try_from accepts: Checksum = 0xAAAA, Boot = 0
ErrorId == {43690, 0}

\* the codes ItemId::try_from accepts
ItemId ==
    {256, 260, 266, 267, 270, 320, 512, 513,
     514, 517, 519, 4175, 4176, 8194, 8195, 8205,
     8206, 8211, 8231, 8240, 8241, 50851, 60908, 60893,
     60891, 60887, 60884, 60885, 60883, 60882, 60881, 60880,
     60860, 60859, 60861, 60841, 60845, 60912}

\* Flags::from_bits(b) is Some: no bit outside UnknownId | NotSupported | ParameterError
from_bits_any(b) == TRUE

from_bits_ok(b) == BitAnd(b, 255 - 7) = 0

----------------------------------------------------------------------------
(* Command::as_frame *)

Cmd(id, item, flags, value) == [id |-> id, item |-> item, flags |-> flags, value |-> value]
NoCmd == Cmd("None", 0, 0, VEmpty)

as_frame_body(c) ==
    CASE c.id = "Get" -> <<CommandId(c.id)>> \o to_le_bytes(c.item) \o <<c.flags>>
      [] c.id \in {"Set", "Async"} ->
            <<CommandId(c.id)>> \o to_le_bytes(c.item) \o <<c.flags>> \o ser_value(c.value)
      [] OTHER -> <<CommandId(c.id)>>

as_frame_sum(c) ==
    LET f == as_frame_body(c)
    IN  Append(f, checksum(f))

as_frame(c) ==
    LET f == as_frame_body(c)
    IN  Append(f, wrapping_sub(85, checksum(f)))

----------------------------------------------------------------------------
(* FrameSer::next on the iterator (frame, state, pos): the iterator after   *)
(* the call and what it returned: Some(b), None, or a panic (an index out   *)
(* of bounds, unreachable!()).                                              *)

Ser(st, pos, kind, b) == [state |-> st, pos |-> pos, kind |-> kind, b |-> b]

next_highfirst(f, st, pos) ==
    CASE st = "Start" ->
            IF pos > 0 THEN Ser(st, pos, "None", 0)
            ELSE Ser("LowNibble", pos, "Some", Colon)
      [] st = "LowNibble" ->
            IF pos + 1 > Len(f) THEN Ser("HighNibble", pos + 1, "Panic", 0)
            ELSE Ser("HighNibble", pos + 1, "Some", hex(Shr4(f[pos + 1])).v)
      [] st = "HighNibble" ->
            IF pos = Len(f) THEN Ser("Start", pos, "Some", Newline)
            ELSE IF pos + 1 > Len(f) THEN Ser("LowNibble", pos, "Panic", 0)
            ELSE Ser("LowNibble", pos, "Some", hex(BitAnd(f[pos + 1], 15)).v)
      [] st = "Text" -> Ser(st, pos, "Panic", 0)

\* the first byte of a frame also gets its high digit
next_fullid(f, st, pos) ==
    CASE st = "Start" ->
            IF pos > 0 THEN Ser(st, pos, "None", 0)
            ELSE Ser("HighNibble", pos, "Some", Colon)
      [] st = "LowNibble" ->
            IF pos + 1 > Len(f) THEN Ser("HighNibble", pos + 1, "Panic", 0)
            ELSE Ser("HighNibble", pos + 1, "Some", hex(BitAnd(f[pos + 1], 15)).v)
      [] st = "HighNibble" ->
            IF pos = Len(f) THEN Ser("Start", pos, "Some", Newline)
            ELSE IF pos + 1 > Len(f) THEN Ser("LowNibble", pos, "Panic", 0)
            ELSE Ser("LowNibble", pos, "Some", hex(Shr4(f[pos + 1])).v)
      [] st = "Text" -> Ser(st, pos, "Panic", 0)

\* the iterator starts over after the end of the frame
next_restart(f, st, pos) ==
    CASE st = "Start" -> Ser("LowNibble", 0, "Some", Colon)
      [] st = "LowNibble" ->
            IF pos + 1 > Len(f) THEN Ser("HighNibble", pos + 1, "Panic", 0)
            ELSE Ser("HighNibble", pos + 1, "Some", hex(BitAnd(f[pos + 1], 15)).v)
      [] st = "HighNibble" ->
            IF pos = Len(f) THEN Ser("Start", pos, "Some", Newline)
            ELSE IF pos + 1 > Len(f) THEN Ser("LowNibble", pos, "Panic", 0)
            ELSE Ser("LowNibble", pos, "Some", hex(Shr4(f[pos + 1])).v)
      [] st = "Text" -> Ser(st, pos, "Panic", 0)

\* hex(v).unwrap() as the byte of the step that ends in st, pos
unwrap(st, pos, h) ==
    IF h.ok THEN Ser(st, pos, "Some", h.v) ELSE Ser(st, pos, "Panic", 0)

next(f, st, pos) ==
    CASE st = "Start" ->
            IF pos > 0 THEN Ser(st, pos, "None", 0)
            ELSE Ser("LowNibble", pos, "Some", Colon)
      [] st = "LowNibble" ->
            IF pos + 1 > Len(f) THEN Ser("HighNibble", pos + 1, "Panic", 0)
            ELSE unwrap("HighNibble", pos + 1, hex(BitAnd(f[pos + 1], 15)))
      [] st = "HighNibble" ->
            IF pos = Len(f) THEN Ser("Start", pos, "Some", Newline)
            ELSE IF pos + 1 > Len(f) THEN Ser("LowNibble", pos, "Panic", 0)
            ELSE unwrap("LowNibble", pos, hex(Shr4(f[pos + 1])))
      [] st = "Text" -> Ser(st, pos, "Panic", 0)

----------------------------------------------------------------------------
(* impl TryFrom<&Frame> for Response.  A slice or index out of range is a   *)
(* panic; it is evaluated where the code evaluates it.                      *)

NoFrame == FErr("none", 0)
NoResp == [kind |-> "none", err |-> "none", typ |-> 0, item |-> 0, code |-> 0, flags |-> 0,
           major |-> 0, minor |-> 0, value |-> VEmpty]

RDone(v) == [NoResp EXCEPT !.kind = "Done", !.value = v]
RUnknown(v) == [NoResp EXCEPT !.kind = "Unknown", !.value = v]
RError(code) == [NoResp EXCEPT !.kind = "Error", !.code = code]
RPing(flags, major, minor) ==
    [NoResp EXCEPT !.kind = "Ping", !.flags = flags, !.major = major, !.minor = minor]
RUpdate(typ, item, flags, v) ==
    [NoResp EXCEPT !.kind = "Update", !.typ = typ, !.item = item, !.flags = flags, !.value = v]
RErr(e) == [NoResp EXCEPT !.kind = "Err", !.err = e]
RPanic == [NoResp EXCEPT !.kind = "Panic"]

bcd_to_bin_plain(c) == c

bcd_to_bin_swapped(c) == Shr4(c) + 10 * BitAnd(c, 15)

bcd_to_bin(c) == BitAnd(c, 15) + 10 * Shr4(c)

\* the match on the response id, data the payload &frame.data[1..len - 1]
response_match(id, p) ==
    CASE id = 1 -> RDone(guess(p))
      [] id = 3 -> RUnknown(guess(p))
      [] id = 4 ->
            IF Len(p) < 2 THEN RPanic
            ELSE IF from_le_bytes(SubSeq(p, 1, 2)) \notin ErrorId THEN RErr("Error")
            ELSE RError(from_le_bytes(SubSeq(p, 1, 2)))
      [] id = 5 ->
            IF Len(p) < 2 THEN RPanic
            ELSE RPing(Shr4(p[2]), BitAnd(p[2], 15), bcd_to_bin(p[1]))
      [] id \in {7, 8, 10} ->
            IF Len(p) < 2 THEN RPanic
            ELSE IF from_le_bytes(SubSeq(p, 1, 2)) \notin ItemId THEN RErr("Item")
            ELSE IF Len(p) < 3 THEN RPanic
            ELSE IF ~from_bits_ok(p[3]) THEN RErr("Flags")
            ELSE RUpdate(id, from_le_bytes(SubSeq(p, 1, 2)), p[3],
                         guess(SubSeq(p, 4, Len(p))))

response_try_from_nocheck(d) ==
    IF Len(d) < 2 THEN RPanic
    ELSE IF d[1] \notin ResponseId THEN RErr("Response")
    ELSE response_match(d[1], SubSeq(d, 2, Len(d) - 1))

response_try_from(d) ==
    IF Len(d) < 2 THEN RPanic
    ELSE IF ~valid(d) THEN RErr("Checksum")
    ELSE IF d[1] \notin ResponseId THEN RErr("Response")
    ELSE response_match(d[1], SubSeq(d, 2, Len(d) - 1))

----------------------------------------------------------------------------
(* The framing rules of the wire, stated on the byte stream alone: a hex    *)
(* unit is ':' + an odd number of hex digits + '\n'; a text unit starts     *)
(* with a byte other than ':' and ends one byte after the first occurrence  *)
(* of the marker.                                                           *)

IsHexDigit(c) == c \in (48..57) \cup (65..70) \cup (97..102)

HexVal(c) == IF c <= 57 THEN c - 48 ELSE IF c <= 70 THEN c - 55 ELSE c - 87

IsHexBody(u) == \A i \in 2..Len(u) : IsHexDigit(u[i])

HexUnitComplete(u) ==
    /\ Len(u) >= 3
    /\ u[1] = Colon
    /\ u[Len(u)] = Newline
    /\ IsHexBody(SubSeq(u, 1, Len(u) - 1))
    /\ (Len(u) - 2) % 2 = 1

HexUnitPartial(u) == Len(u) >= 1 /\ u[1] = Colon /\ IsHexBody(u)

TextUnitComplete(u) ==
    /\ Len(u) >= Len(Marker) + 1
    /\ u[1] # Colon
    /\ SubSeq(u, Len(u) - Len(Marker), Len(u) - 1) = Marker

TextUnitPartial(u) == Len(u) >= 1 /\ u[1] # Colon

UnitComplete(u) == HexUnitComplete(u) \/ TextUnitComplete(u)

UnitOk(u) == UnitComplete(u) \/ HexUnitPartial(u) \/ TextUnitPartial(u)

\* the bytes a well-formed unit stands for: for ':' h1 .. h(2k+1) '\n',
\* byte 0 = h1 and byte i = h(2i) * 16 + h(2i+1); a text unit stands for itself
HexDecoded(u) ==
    [i \in 1..((Len(u) - 1) \div 2) |->
        IF i = 1 THEN HexVal(u[2])
        ELSE HexVal(u[2 * i - 1]) * 16 + HexVal(u[2 * i])]

UnitDecoded(u) == IF u[1] = Colon THEN HexDecoded(u) ELSE u

----------------------------------------------------------------------------
(* The streaming decoder driven by a byte stream (specification Spec).      *)
(* The stream is any sequence of freely chosen bytes of Alphabet (at most   *)
(* MaxFree of them) and whole text markers, at most MaxLen bytes in all.    *)

\* ':', '\n', '0', 'A', 'f'
Alphabet == {Colon, Newline, 48, 65, 102}

CmdIdle ==
    /\ cmd = NoCmd /\ frame = <<>> /\ sstate = "Start" /\ spos = 0
    /\ wire = <<>> /\ nnone = 0 /\ rx = <<>> /\ req = NoFrame /\ rsp = NoFrame

\* no reader, and the Frame of lib.rs as Frame::default() makes it
ReadIdle == rd = <<>> /\ rres = "none" /\ rn = 0 /\ lib = LibDefault

\* no decoder reuse, no Value and no nibble under conversion
AuxIdle ==
    /\ prev = <<>> /\ redo = <<>>
    /\ vin = <<>> /\ val = VEmpty /\ vout = <<>> /\ val2 = VEmpty
    /\ c8 = 0 /\ nib = Ok(0) /\ hx = Ok(0) /\ rt = Ok(0)
    /\ ReadIdle

DecIdle ==
    /\ state = "Start" /\ data = <<>> /\ ret = Ok(0) /\ fed = <<>> /\ unit = <<>>
    /\ gunit = <<>> /\ gwf = TRUE /\ gend = FALSE /\ nfree = 0 /\ nerr = 0 /\ mk = 0

\* Frame::default() and Frame::de() on it
Init ==
    /\ DecIdle
    /\ CmdIdle
    /\ AuxIdle
    /\ resp = NoResp
    /\ pc = "stream"

\* FrameDe::push(c), with the bookkeeping of the stream
PushByte(c) ==
    LET p == push(state, data, c)
        g == IF gend \/ gunit = <<>> THEN <<c>> ELSE Append(gunit, c)
    IN  /\ Len(fed) < MaxLen
        /\ state' = p.state
        /\ data' = p.data
        /\ ret' = p.ret
        /\ fed' = Append(fed, c)
        /\ unit' = IF state = "Start" THEN <<c>> ELSE Append(unit, c)
        /\ gunit' = g
        /\ gwf' = (gwf /\ UnitOk(g))
        /\ gend' = (gwf /\ UnitComplete(g))
        /\ nerr' = IF p.ret.ok THEN nerr ELSE nerr + 1
        /\ UNCHANGED <<cmdvars, auxvars, resp, pc>>

\* a freely chosen byte arrives
Push ==
    /\ mk = 0
    /\ nfree < MaxFree
    /\ \E c \in Alphabet : PushByte(c)
    /\ nfree' = nfree + 1
    /\ mk' = 0

\* the next byte of a text marker arrives (the whole marker must fit,
\* with the byte that follows it)
PushMarker ==
    /\ mk > 0 \/ Len(fed) + Len(Marker) < MaxLen
    /\ PushByte(Marker[mk + 1])
    /\ mk' = (mk + 1) % Len(Marker)
    /\ nfree' = nfree

\* Frame::de(): a new decoder on the frame as it is
De ==
    /\ mk = 0
    /\ fed # <<>>
    /\ state' = "Start"
    /\ ret' = Ok(0)
    /\ fed' = <<>>
    /\ unit' = <<>>
    /\ gunit' = <<>>
    /\ gwf' = TRUE
    /\ gend' = FALSE
    /\ nerr' = 0
    /\ nfree' = 0
    /\ UNCHANGED <<data, mk, cmdvars, auxvars, resp, pc>>

Next == Push \/ PushMarker \/ De

Spec == Init /\ [][Next]_vars

----------------------------------------------------------------------------
(* Claims on the streaming decoder (specification Spec)                     *)

\* C4 (as claimed): done() is true exactly when the state is Start and at
\* least one byte has been buffered since the last completion; in particular
\* it is false on a decoder that has received no byte.
C4_DoneNeedsByte ==
    done(state, data) <=> (state = "Start" /\ unit # <<>>)

\* C5: fed to a decoder in Start, ':' h1 .. h(2k+1) '\n' (hex digits of either
\* case) ends in Start with a buffer of exactly k+1 bytes, byte 0 = nibble(h1)
\* and byte i = nibble(h(2i))*16 + nibble(h(2i+1)); a '\n' after an even number
\* of digits (zero included) returns the Hex error and does not complete.
C5_HexDecoding ==
    LET n == Len(unit) IN
    (/\ n >= 2
     /\ unit[1] = Colon
     /\ unit[n] = Newline
     /\ \A i \in 2..(n - 1) : IsHexDigit(unit[i]))
    => IF (n - 2) % 2 = 1
       THEN /\ state = "Start"
            /\ ret.ok
            /\ Len(data) = ((n - 3) \div 2) + 1
            /\ data = HexDecoded(unit)
            /\ data[1] < 16
       ELSE /\ ret = Err("Hex", Newline)
            /\ state # "Start"

\* a frame of two bytes decoded from digits of both cases
C5_Witness ==
    /\ state = "Start"
    /\ Len(unit) = 5
    /\ unit[1] = Colon
    /\ unit[5] = Newline
    /\ \A i \in 2..4 : IsHexDigit(unit[i])
    /\ \E i \in 2..4 : unit[i] = 102
    /\ \E i \in 2..4 : unit[i] = 65
    /\ Len(data) = 2

\* C6: when the first byte pushed in Start is not ':', no push returns an
\* error, the buffer is every byte pushed since Start in order, and the
\* decoder is done exactly when the ten bytes before the last one pushed are
\* the marker "\nChecksum\t" (so it completes on the byte after the marker,
\* whatever that byte is, and not before).
C6_TextCompletion ==
    LET n == Len(unit) IN
    (n >= 1 /\ unit[1] # Colon)
    => /\ ret.ok
       /\ data = unit
       /\ state \in {"Start", "Text"}
       /\ done(state, data) <=>
              (n >= 11 /\ SubSeq(unit, n - 10, n - 1) = Marker)

\* a text block completed by a ':' as its checksum byte
C6_Witness ==
    /\ state = "Start"
    /\ Len(unit) >= 12
    /\ unit[1] # Colon
    /\ unit[Len(unit)] = Colon
    /\ data = unit

\* C7: on a stream that is a concatenation of well-formed units, after each
\* byte pushed the decoder is done exactly when that byte ended a unit, and
\* then the buffer is exactly that unit's decoded bytes.
C7_LosslessStream ==
    (gwf /\ fed # <<>>)
    => /\ done(state, data) <=> gend
       /\ gend => data = UnitDecoded(gunit)

\* a hex frame decoded right after a text block
C7_Witness ==
    /\ gwf
    /\ gend
    /\ Len(fed) > Len(gunit)
    /\ gunit[1] = Colon
    /\ fed[1] # Colon

\* a text block decoded right after a hex frame
C7_WitnessTextAfterHex ==
    /\ gwf
    /\ gend
    /\ Len(fed) > Len(gunit)
    /\ gunit[1] # Colon
    /\ fed[1] = Colon
    /\ data = gunit

\* the 8-bit sum of a buffer, computed without wrapping at each step
RECURSIVE Sum(_)
Sum(s) == IF s = <<>> THEN 0 ELSE Head(s) + Sum(Tail(s))

\* C8: valid() is true exactly when the buffer is non-empty and its 8-bit sum
\* is 0x00 or 0x55; Frame::try_from(bytes) is Ok(f) exactly when no push
\* fails, the decoder is done after the last byte and f is valid, Err(Length)
\* when the input ends mid-frame, Err(Checksum) when done but not valid (and
\* the error of the first failing push otherwise).
C8_FrameAcceptance ==
    /\ valid(data) <=> (data # <<>> /\ Sum(data) % 256 \in {0, 85})
    /\ fed = <<>> => try_from(fed) = FErr("Checksum", 0)
    /\ (fed # <<>> /\ nerr = 0) =>
          try_from(fed) = IF state # "Start" THEN FErr("Length", 0)
                          ELSE IF ~valid(data) THEN FErr("Checksum", 0)
                          ELSE FOk(data)
    /\ (fed # <<>> /\ nerr = 1 /\ ~ret.ok) => try_from(fed) = FErr("Hex", ret.c)
    /\ nerr > 0 => ~try_from(fed).ok

\* an accepted frame, and a complete frame rejected for its checksum
C8_Witness ==
    /\ fed # <<>>
    /\ nerr = 0
    /\ state = "Start"
    /\ try_from(fed) = FOk(data)
    /\ Len(data) >= 2

C8_WitnessChecksum ==
    /\ fed # <<>> /\ nerr = 0 /\ state = "Start" /\ try_from(fed) = FErr("Checksum", 0)

\* C21: whenever FrameDe::push(c) returns an error, the error is Hex(c)
\* with the offending byte, the decoder was in LowNibble or HighNibble, and
\* the decoder state and the whole buffer are as they were before the call.
C21_RejectedByteChangesNothing ==
    [][(fed' # <<>> /\ fed' # fed /\ ~ret'.ok)
         => /\ ret' = Err("Hex", fed'[Len(fed')])
            /\ state \in {"LowNibble", "HighNibble"}
            /\ state' = state
            /\ data' = data]_vars

\* "::f\n": the second ':' was rejected in LowNibble, and the bytes after it
\* completed the same frame
C21_Witness ==
    /\ fed = <<58, 58, 102, 10>>
    /\ nerr = 1
    /\ state = "Start"
    /\ data = <<15>>

\* a byte was rejected in HighNibble and the decoder stayed there
C21_WitnessHigh ==
    /\ fed = <<58, 65, 58>>
    /\ ret = Err("Hex", 58)
    /\ state = "HighNibble"
    /\ data = <<10>>

\* C22: in every state reachable from Frame::de() by pushes of any bytes, the
\* buffer is non-empty when the decoder is in LowNibble, HighNibble or Text
\* and when a push has moved it back to Start; push never aborts on the
\* last_mut().unwrap() of the LowNibble step.
C22_BufferInvariant ==
    /\ state \in {"LowNibble", "HighNibble", "Text"} => data # <<>>
    /\ (state = "Start" /\ fed # <<>>) => data # <<>>
    /\ ret.kind # "Panic"

\* the LowNibble step ran on the byte pushed for ':' and the frame completed
C22_Witness ==
    /\ fed = <<58, 102, 10>>
    /\ state = "Start"
    /\ data = <<15>>

\* a decoder made on a used Frame is in LowNibble after ':'
C22_WitnessLow ==
    /\ fed = <<58>>
    /\ state = "LowNibble"
    /\ data = <<0>>

\* C14 (as claimed): feeding a decoder in Start one byte other than ':'
\* followed by a well-formed valid hex frame ends with the decoder done and the
\* buffer equal to that frame's decoded bytes, and Frame::try_from on that
\* input returns Ok with the frame.
C14_Resynchronization ==
    (/\ Len(fed) >= 4
     /\ fed[1] # Colon
     /\ HexUnitComplete(Tail(fed))
     /\ valid(HexDecoded(Tail(fed))))
    => /\ done(state, data)
       /\ data = HexDecoded(Tail(fed))
       /\ try_from(fed) = FOk(HexDecoded(Tail(fed)))

----------------------------------------------------------------------------
(* A command/response exchange (specification SpecCmd), as the test serde   *)
(* (vedirect.rs:492-505) and the host (main.rs:57) run it: the command is   *)
(* built with as_frame, serialised byte by byte with FrameSer::next, the    *)
(* request bytes are decoded back with Frame::try_from, and the response    *)
(* bytes are decoded with Frame::try_from and parsed by Response::try_from. *)

\* BatteryMaximumCurrent, State, Product
ItemSample == {60912, 513, 256}

\* empty, all three flags, and a retained unknown bit
FlagsSample == {0, 7, 128}

ValueSample ==
    {VEmpty, VU8(5), VU8(255), VI8(-1), VU16(100), VI16(-2),
     VU32(65535, 65534), VI32(-1, 65535), VI32(-32768, 0),
     VAscii(<<65, 58>>), VOther(<<10, 0, 85>>)}

Commands ==
    {Cmd(id, 0, 0, VEmpty) : id \in {"Boot", "Ping", "Version", "Product", "Restart"}}
    \cup {Cmd("Get", i, f, VEmpty) : i \in ItemSample, f \in FlagsSample}
    \cup {Cmd(id, i, f, v) : id \in {"Set", "Async"}, i \in ItemSample,
                             f \in FlagsSample, v \in ValueSample}

\* the request and response bytes of tests::EXAMPLES (vedirect.rs:466-490)
ReqPing == <<58, 49, 53, 52, 10>>                                        \* ":154\n"
ReqVersion == <<58, 51, 53, 50, 10>>                                     \* ":352\n"
ReqProduct == <<58, 52, 53, 49, 10>>                                     \* ":451\n"
ReqGet == <<58, 55, 70, 48, 69, 68, 48, 48, 55, 49, 10>>                 \* ":7F0ED0071\n"
ReqSet == <<58, 56, 70, 48, 69, 68, 48, 48, 54, 52, 48, 48, 48, 67, 10>> \* ":8F0ED0064000C\n"
ReqRestart == <<58, 54, 52, 70, 10>>                                     \* ":64F\n"
RespPing == <<58, 53, 49, 54, 52, 49, 70, 57, 10>>                       \* ":51641F9\n"
RespVersion == <<58, 49, 49, 54, 52, 49, 70, 68, 10>>                    \* ":11641FD\n"
RespProduct == <<58, 49, 48, 48, 48, 51, 53, 49, 10>>                    \* ":1000351\n"
RespGet == <<58, 55, 70, 48, 69, 68, 48, 48, 57, 54, 48, 48, 68, 66, 10>> \* ":7F0ED009600DB\n"
RespSet == <<58, 56, 70, 48, 69, 68, 48, 48, 54, 52, 48, 48, 48, 67, 10>> \* ":8F0ED0064000C\n"
RespRestart == <<58, 65, 48, 49, 48, 50, 48, 48, 48, 53, 52, 51, 10>>    \* ":A0102000543\n"
RespUnknown == <<58, 51, 48, 50, 48, 48, 53, 48, 10>>                    \* ":3020050\n"
RespError == <<58, 52, 65, 65, 65, 65, 70, 68, 10>>                      \* ":4AAAAFD\n"

\* what the device may answer: the examples, and a truncated and a corrupted line
Responses ==
    {RespPing, RespVersion, RespProduct, RespGet, RespSet, RespRestart, RespUnknown,
     RespError, <<58, 53, 49, 54>>, <<58, 53, 49, 54, 52, 49, 70, 56, 10>>}

InitCmd ==
    /\ DecIdle
    /\ cmd \in Commands
    /\ frame = <<>> /\ sstate = "Start" /\ spos = 0
    /\ wire = <<>> /\ nnone = 0 /\ rx = <<>> /\ req = NoFrame /\ rsp = NoFrame
    /\ AuxIdle
    /\ resp = NoResp
    /\ pc = "new"

\* cmd.as_frame().ser()
AsFrame ==
    /\ pc = "new"
    /\ frame' = as_frame(cmd)
    /\ sstate' = "Start"
    /\ spos' = 0
    /\ pc' = "ser"
    /\ UNCHANGED <<decvars, auxvars, cmd, wire, nnone, rx, req, rsp, resp>>

\* one FrameSer::next() of collect()
SerNext ==
    /\ pc = "ser"
    /\ LET n == next(frame, sstate, spos)
       IN  /\ sstate' = n.state
           /\ spos' = n.pos
           /\ wire' = IF n.kind = "Some" THEN Append(wire, n.b) ELSE wire
           /\ pc' = CASE n.kind = "Some" -> "ser"
                      [] n.kind = "None" -> "sent"
                      [] OTHER -> "abort"
           /\ nnone' = IF n.kind = "None" THEN nnone + 1 ELSE nnone
    /\ UNCHANGED <<decvars, auxvars, cmd, frame, rx, req, rsp, resp>>

\* Frame::try_from on the bytes collected
TryFromRequest ==
    /\ pc = "sent"
    /\ req' = try_from(wire)
    /\ pc' = "wait"
    /\ UNCHANGED <<decvars, auxvars, cmd, frame, sstate, spos, wire, nnone, rx, rsp, resp>>

\* Frame::try_from on the bytes of the response
Receive ==
    /\ pc = "wait"
    /\ \E r \in Responses :
          /\ rx' = r
          /\ rsp' = try_from(r)
    /\ pc' = "rcvd"
    /\ UNCHANGED <<decvars, auxvars, cmd, frame, sstate, spos, wire, nnone, req, resp>>

\* Response::try_from on the frame received
ParseResponse ==
    /\ pc = "rcvd"
    /\ rsp.ok
    /\ resp' = response_try_from(rsp.f)
    /\ pc' = "done"
    /\ UNCHANGED <<decvars, cmdvars, auxvars>>

NextCmd == AsFrame \/ SerNext \/ TryFromRequest \/ Receive \/ ParseResponse

SpecCmd == InitCmd /\ [][NextCmd]_vars

----------------------------------------------------------------------------
(* Response::try_from on a frame (specification SpecResp).  The frame is    *)
(* any buffer a decoder can leave behind: an id byte below 16, up to        *)
(* MaxPayload payload bytes, and no last byte, the byte that closes the sum *)
(* to 0x55 or to 0x00, or a byte that closes it to neither.                 *)

PayloadBytes == {0, 1, 2, 128}

RECURSIVE SeqsUpTo(_, _)
SeqsUpTo(S, n) ==
    IF n = 0 THEN {<<>>}
    ELSE LET shorter == SeqsUpTo(S, n - 1)
         IN  shorter \cup {Append(q, x) : q \in shorter, x \in S}

\* longer payloads of an Update: an item code (Product, 0x0201, 0xEDF0 or the
\* unknown code 0), a flags byte, and a value of up to MaxTail bytes
ItemBytes == {<<0, 1>>, <<1, 2>>, <<240, 237>>, <<0, 0>>}

FlagBytes == {0, 5, 7, 8, 255}

TailBytes == {0, 255}

UpdateBodies ==
    {<<id>> \o i \o <<f>> \o t :
        id \in {7, 8, 10}, i \in ItemBytes, f \in FlagBytes, t \in SeqsUpTo(TailBytes, MaxTail)}

\* payloads of a Ping: every byte as the minor version, with and without a
\* further byte
PingBodies ==
    {<<5, p0, p1>> \o t : p0 \in Byte, p1 \in {0, 65, 255}, t \in {<<>>, <<9>>}}

FrameBodies ==
    {<<id>> \o p : id \in 0..15, p \in SeqsUpTo(PayloadBytes, MaxPayload)}
    \cup UpdateBodies \cup PingBodies

FrameBufs ==
    {<<>>}
    \cup FrameBodies
    \cup {Append(b, wrapping_sub(k, checksum(b))) : b \in FrameBodies, k \in {85, 0, 86}}

InitResp ==
    /\ state = "Start" /\ ret = Ok(0) /\ fed = <<>> /\ unit = <<>>
    /\ gunit = <<>> /\ gwf = TRUE /\ gend = FALSE /\ nfree = 0 /\ nerr = 0 /\ mk = 0
    /\ CmdIdle
    /\ AuxIdle
    /\ data \in FrameBufs
    /\ resp = NoResp
    /\ pc = "frame"

\* Response::try_from(&frame)
Parse ==
    /\ pc = "frame"
    /\ resp' = response_try_from(data)
    /\ pc' = "parsed"
    /\ UNCHANGED <<decvars, cmdvars, auxvars>>

NextResp == Parse

SpecResp == InitResp /\ [][NextResp]_vars

----------------------------------------------------------------------------
(* Claims on the exchange (specification SpecCmd)                           *)

\* C1: for every Command c, the bytes collected from c.as_frame().ser(),
\* passed to Frame::try_from, give Ok(f) with f equal to c.as_frame().
C1_EncodeDecodeRoundTrip ==
    pc \in {"wait", "rcvd", "done"} => req = FOk(as_frame(cmd))

\* a Set command with a four-byte value went through the round trip
C1_Witness ==
    /\ pc = "wait"
    /\ cmd.id = "Set"
    /\ cmd.value.tag = "I32"
    /\ req.ok
    /\ Len(req.f) = 9
    /\ Len(wire) = 19

\* C2: the frame built by as_frame() has an 8-bit sum over all its bytes
\* (type code, payload, checksum byte) equal to 0x55, so valid() holds of it.
C2_ChecksumInvariant ==
    pc # "new" => (Sum(frame) % 256 = 85 /\ valid(frame))

\* a frame with a payload whose bytes sum past 255
C2_Witness ==
    /\ pc = "ser"
    /\ cmd.id = "Async"
    /\ Sum(frame) > 255
    /\ Sum(frame) % 256 = 85

\* the six rows of the table: command, request bytes, response bytes, and
\* the Response the response bytes stand for
Fixtures ==
    {[cmd |-> Cmd("Ping", 0, 0, VEmpty), req |-> ReqPing, resp |-> RespPing,
      parsed |-> RPing(4, 1, 16)],
     [cmd |-> Cmd("Version", 0, 0, VEmpty), req |-> ReqVersion, resp |-> RespVersion,
      parsed |-> RDone(VU16(16662))],
     [cmd |-> Cmd("Product", 0, 0, VEmpty), req |-> ReqProduct, resp |-> RespProduct,
      parsed |-> RDone(VU16(768))],
     [cmd |-> Cmd("Get", 60912, 0, VEmpty), req |-> ReqGet, resp |-> RespGet,
      parsed |-> RUpdate(7, 60912, 0, VU16(150))],
     [cmd |-> Cmd("Set", 60912, 0, VU16(100)), req |-> ReqSet, resp |-> RespSet,
      parsed |-> RUpdate(8, 60912, 0, VU16(100))],
     [cmd |-> Cmd("Restart", 0, 0, VEmpty), req |-> ReqRestart, resp |-> RespRestart,
      parsed |-> RUpdate(10, 513, 0, VU8(5))]}

\* C3: for each of the six rows, as_frame().ser() yields exactly the request
\* bytes, Frame::try_from is Ok on the request bytes and on the response
\* bytes, and Response::try_from on the response frame is Ok with the
\* expected variant and fields.
C3_ConformanceFixtures ==
    \A row \in Fixtures :
        cmd = row.cmd =>
            /\ pc \in {"sent", "wait", "rcvd", "done"} => wire = row.req
            /\ pc \in {"wait", "rcvd", "done"} => req.ok
            /\ (pc \in {"rcvd", "done"} /\ rx = row.resp) => rsp.ok
            /\ (pc = "done" /\ rx = row.resp) => resp = row.parsed

\* the Restart row has been sent and its asynchronous State update parsed
C3_Witness ==
    /\ pc = "done"
    /\ cmd = Cmd("Restart", 0, 0, VEmpty)
    /\ wire = ReqRestart
    /\ rx = RespRestart
    /\ resp.kind = "Update"

----------------------------------------------------------------------------
(* Claims on Response::try_from (specification SpecResp)                    *)

\* C9 (as claimed): for every frame that is not valid, the empty frame and a
\* one-byte buffer included, Response::try_from returns Err(Checksum); it
\* neither aborts nor returns Ok.
C9_InvalidFrameRejected ==
    (pc = "parsed" /\ ~valid(data)) => resp = RErr("Checksum")

\* the frames C10 is about: valid, with a known response id and a payload too
\* short for the fixed-width fields of that response, or the one valid byte 0
TooShort(d) ==
    /\ valid(d)
    /\ \/ d = <<0>>
       \/ /\ Len(d) >= 2
          /\ \/ d[1] \in {4, 5} /\ Len(d) - 2 < 2
             \/ d[1] \in {7, 8, 10} /\ Len(d) - 2 < 3

\* C10 (as claimed): for every valid frame with a known response id whose
\* payload is too short, and for the one-byte valid frame, Response::try_from
\* returns the typed Slice error and never aborts.
C10_ShortPayloadTypedError ==
    (pc = "parsed" /\ TooShort(data)) => resp = RErr("Slice")

\* the item code of a frame: its first two payload bytes, little-endian
ItemCode(d) == d[2] + 256 * d[3]

\* C11 (as claimed): for every valid frame whose response id is Get, Set or
\* Async and whose first two payload bytes are a code not in ItemId,
\* Response::try_from returns Err(Item), whatever the remaining payload is;
\* a valid frame whose byte 0 is not a known response id returns Err(Response).
C11_UnknownIdRejected ==
    (pc = "parsed" /\ valid(data)) =>
        /\ (data[1] \in {7, 8, 10} /\ Len(data) >= 4 /\ ItemCode(data) \notin ItemId)
              => resp = RErr("Item")
        /\ data[1] \notin {1, 3, 4, 5, 7, 8, 10} => resp = RErr("Response")

\* the part of C11 the code satisfies: the unknown item code, and the unknown
\* response id on a frame of at least two bytes
C11_HoldsFromTwoBytes ==
    (pc = "parsed" /\ valid(data) /\ Len(data) >= 2) =>
        /\ (data[1] \in {7, 8, 10} /\ Len(data) >= 4 /\ ItemCode(data) \notin ItemId)
              => resp = RErr("Item")
        /\ data[1] \notin {1, 3, 4, 5, 7, 8, 10} => resp = RErr("Response")

\* C12: for every valid frame with id Get, Set or Async and a payload p of at
\* least three bytes whose item code is in ItemId: if p[2] has no bit outside
\* 0x07 the result is Ok(Update) with the matching kind, that item, flags p[2]
\* and value Value::guess(p[3..]); otherwise it is Err(Flags).
C12_UpdateParsing ==
    (/\ pc = "parsed" /\ valid(data) /\ data[1] \in {7, 8, 10}
     /\ Len(data) >= 5 /\ ItemCode(data) \in ItemId)
    => IF data[4] < 8
       THEN resp = RUpdate(data[1], ItemCode(data), data[4],
                           guess(SubSeq(data, 5, Len(data) - 1)))
       ELSE resp = RErr("Flags")

\* an Async update of item 0xEDF0 with all three flags and a four-byte value
C12_Witness ==
    /\ pc = "parsed" /\ valid(data)
    /\ Len(data) = 9 /\ data[1] = 10 /\ ItemCode(data) = 60912 /\ data[4] = 7
    /\ resp.kind = "Update" /\ resp.value = VU32(65535, 255)

\* a Get answer whose flags byte has a bit outside 0x07 was refused
C12_WitnessFlags ==
    /\ pc = "parsed" /\ valid(data)
    /\ Len(data) >= 5 /\ data[1] = 7 /\ ItemCode(data) = 256 /\ data[4] = 8
    /\ resp = RErr("Flags")

\* C13: for every valid frame with id Ping and payload bytes p0, p1 (further
\* bytes ignored) the result is Ok(Ping) with minor = (p0 & 0xF) + 10*(p0 >> 4),
\* major = p1 & 0xF and flags = p1 >> 4; the minor never leaves 8 bits (it is
\* at most 165).
C13_PingParsing ==
    (pc = "parsed" /\ valid(data) /\ data[1] = 5 /\ Len(data) >= 4)
    => /\ resp = RPing(data[3] \div 16, data[3] % 16,
                       (data[2] % 16) + 10 * (data[2] \div 16))
       /\ resp.minor <= 165

\* the Ping whose minor byte is 0xFF gave the largest minor, 165, with a
\* further payload byte ignored
C13_Witness ==
    /\ pc = "parsed" /\ valid(data)
    /\ data[1] = 5 /\ Len(data) = 5 /\ data[2] = 255 /\ data[3] = 65
    /\ resp = RPing(4, 1, 165)

-----------------------------------------------------------------------------
(* Frame::ser() on a frame (specification SpecSer).  The frame is any       *)
(* buffer of up to MaxFrame bytes, the empty one and first bytes above 15   *)
(* included; next() is called until it returns None, and then again.       *)

\* 0x00, 0x0A, 0x5F, 0xA9, 0xFF
SerBytes == {0, 10, 95, 169, 255}

SerFrames == SeqsUpTo(SerBytes, MaxFrame)

InitSer ==
    /\ DecIdle
    /\ AuxIdle
    /\ cmd = NoCmd
    /\ frame \in SerFrames
    /\ sstate = "Start" /\ spos = 0
    /\ wire = <<>> /\ nnone = 0 /\ rx = <<>> /\ req = NoFrame /\ rsp = NoFrame
    /\ resp = NoResp
    /\ pc = "ser"

\* one more FrameSer::next() on an iterator that has returned None
SerAgain ==
    /\ pc = "sent"
    /\ nnone < MaxNone
    /\ LET n == next(frame, sstate, spos)
       IN  /\ sstate' = n.state
           /\ spos' = n.pos
           /\ wire' = IF n.kind = "Some" THEN Append(wire, n.b) ELSE wire
           /\ pc' = CASE n.kind = "Some" -> "ser"
                      [] n.kind = "None" -> "sent"
                      [] OTHER -> "abort"
           /\ nnone' = IF n.kind = "None" THEN nnone + 1 ELSE nnone
    /\ UNCHANGED <<decvars, auxvars, cmd, frame, rx, req, rsp, resp>>

NextSer == SerNext \/ SerAgain

SpecSer == InitSer /\ [][NextSer]_vars

-----------------------------------------------------------------------------
(* Claims on the serializer (specification SpecSer)                         *)

\* the upper-case hex digit of a value below 16
HexDigit(v) == IF v < 10 THEN 48 + v ELSE 55 + v

\* ':' + two hex digits for every byte of f + '\n'
TwoDigitWire(f) ==
    <<Colon>>
    \o [i \in 1..(2 * Len(f)) |->
          IF i % 2 = 1 THEN HexDigit(f[(i + 1) \div 2] \div 16)
          ELSE HexDigit(f[i \div 2] % 16)]
    \o <<Newline>>

\* ':' + the low digit of byte 0 + two hex digits for every later byte + '\n'
IdDigitWire(f) ==
    <<Colon, HexDigit(f[1] % 16)>>
    \o [i \in 1..(2 * (Len(f) - 1)) |->
          IF i % 2 = 1 THEN HexDigit(f[1 + (i + 1) \div 2] \div 16)
          ELSE HexDigit(f[1 + i \div 2] % 16)]
    \o <<Newline>>

\* C15 (as claimed): for every non-empty frame, ser() emits ':' followed by
\* two hex digits for each buffered byte in buffer order, the id byte
\* included, followed by '\n': 2*len + 2 bytes in all.
C15_WireFormat ==
    (pc = "sent" /\ frame # <<>>)
    => /\ wire = TwoDigitWire(frame)
       /\ Len(wire) = 2 * Len(frame) + 2

\* C15 (amended): for every non-empty frame, ser() emits ':' followed by one
\* hex digit for byte 0 (its low nibble) and two hex digits, high nibble
\* first, for each later byte in buffer order, followed by '\n': 2*len + 1
\* bytes in all.
C15_WireFormatIdDigit ==
    (pc = "sent" /\ frame # <<>>)
    => /\ wire = IdDigitWire(frame)
       /\ Len(wire) = 2 * Len(frame) + 1

\* the frame A9 5F 0A went out as ":95F0A\n"
C15_Witness ==
    /\ pc = "sent"
    /\ frame = <<169, 95, 10>>
    /\ wire = <<58, 57, 53, 70, 48, 65, 10>>

\* C20: for every non-empty frame, repeated next() returns Some finitely many
\* times without aborting (every hex() call gets a value of at most 0xF), the
\* last Some is '\n', every emitted byte is ':', '\n', '0'..'9' or 'A'..'F',
\* and every next() after the '\n' returns None.
C20_EncoderFinite ==
    frame # <<>> =>
        /\ pc # "abort"
        /\ Len(wire) <= 2 * Len(frame) + 1
        /\ \A i \in 1..Len(wire) : wire[i] \in {Colon, Newline} \cup (48..57) \cup (65..70)
        /\ \A i \in 1..(Len(wire) - 1) : wire[i] # Newline
        /\ (pc = "sent") <=> (nnone > 0)
        /\ (wire # <<>> /\ wire[Len(wire)] = Newline)
              => next(frame, sstate, spos) = Ser(sstate, spos, "None", 0)
        /\ pc = "sent" => (wire # <<>> /\ wire[Len(wire)] = Newline)

\* next() was called MaxNone times after the '\n' of a three-byte frame
C20_Witness ==
    /\ pc = "sent"
    /\ Len(frame) = 3
    /\ nnone = MaxNone
    /\ Len(wire) = 7

\* C24 (as claimed): iterating ser() over a Frame whose buffer is empty does
\* not abort; it yields a finite byte sequence and then None.
C24_EmptyFrameSafe ==
    frame = <<>> =>
        /\ pc # "abort"
        /\ Len(wire) <= 2
        /\ nnone > 0 => next(frame, sstate, spos).kind = "None"

-----------------------------------------------------------------------------
(* A Frame decoded into twice (specification SpecDe).  A first decoder is   *)
(* fed any sequence prev of up to MaxPrev bytes of Alphabet, errors         *)
(* ignored as in main.rs; then de() makes a new decoder on the same Frame,  *)
(* which is fed one well-formed unit.                                       *)

Prevs == SeqsUpTo(Alphabet, MaxPrev)

\* ":0\n", ":A0f\n", a text block that starts with '0', and the bare marker
\* followed by '\n'
Units ==
    {<<58, 48, 10>>, <<58, 65, 48, 102, 10>>, <<48>> \o Marker \o <<58>>, Marker \o <<10>>}

InitDe ==
    /\ DecIdle
    /\ CmdIdle
    /\ prev \in Prevs
    /\ redo \in Units
    /\ vin = <<>> /\ val = VEmpty /\ vout = <<>> /\ val2 = VEmpty
    /\ c8 = 0 /\ nib = Ok(0) /\ hx = Ok(0) /\ rt = Ok(0)
    /\ ReadIdle
    /\ resp = NoResp
    /\ pc = "prev"

\* the first decoder gets the next byte of prev
FeedPrev ==
    /\ pc = "prev"
    /\ Len(fed) < Len(prev)
    /\ PushByte(prev[Len(fed) + 1])
    /\ nfree' = nfree
    /\ mk' = mk

\* Frame::de() once prev is fed: a new decoder on the frame as it is
DeAgain ==
    /\ pc = "prev"
    /\ fed = prev
    /\ state' = "Start"
    /\ ret' = Ok(0)
    /\ fed' = <<>>
    /\ unit' = <<>>
    /\ gunit' = <<>>
    /\ gwf' = TRUE
    /\ gend' = FALSE
    /\ nerr' = 0
    /\ pc' = "redo"
    /\ UNCHANGED <<data, nfree, mk, cmdvars, auxvars, resp>>

\* the new decoder gets the next byte of the unit
FeedRedo ==
    /\ pc = "redo"
    /\ Len(fed) < Len(redo)
    /\ PushByte(redo[Len(fed) + 1])
    /\ nfree' = nfree
    /\ mk' = mk

NextDe == FeedPrev \/ DeAgain \/ FeedRedo

SpecDe == InitDe /\ [][NextDe]_vars

\* C16: after any byte sequence fed to a decoder, errors and a stop in
\* mid-frame included, a new decoder made by de() on the same Frame and fed
\* one well-formed unit is done with the buffer equal to exactly that unit's
\* decoded bytes; at every byte it is where a decoder on a fresh Frame is.
C16_ErrorsLocal ==
    (pc = "redo" /\ fed # <<>>)
    => /\ Dec(state, data, ret) = try_push("Start", <<>>, fed)
       /\ ret.ok
       /\ fed = redo => (done(state, data) /\ data = UnitDecoded(redo))

\* ":0:" left the first decoder in mid-frame after an error, with one byte
\* buffered; the second decoder then decoded ":A0f\n"
C16_Witness ==
    /\ pc = "redo"
    /\ prev = <<58, 48, 58>>
    /\ redo = <<58, 65, 48, 102, 10>>
    /\ fed = redo
    /\ data = <<10, 15>>

\* the first decoder of C16_Witness: an error returned, not done, a byte buffered
C16_WitnessFirst ==
    /\ pc = "prev"
    /\ prev = <<58, 48, 58>>
    /\ fed = prev
    /\ nerr = 1
    /\ state = "HighNibble"
    /\ data = <<0>>

-----------------------------------------------------------------------------
(* Value::guess and Value::ser as pure functions (specification SpecValue). *)
(* A run either starts from a byte string of up to MaxValue bytes, guesses  *)
(* and serializes the guess, or starts from a numeric Value, serializes it  *)
(* and guesses from the bytes.                                              *)

devars == <<prev, redo>>
valvars == <<vin, val, vout, val2>>
nibvars == <<c8, nib, hx, rt>>

ValueBytes == {0, 1, 128, 255}

NumericValues ==
    {VU8(n) : n \in {0, 5, 255}}
    \cup {VI8(n) : n \in {-128, -1, 0, 127}}
    \cup {VU16(n) : n \in {0, 100, 65535}}
    \cup {VI16(n) : n \in {-32768, -2, 0, 32767}}
    \cup {VU32(0, 0), VU32(1, 0), VU32(65535, 65534)}
    \cup {VI32(-1, 65535), VI32(-32768, 0), VI32(0, 5), VI32(32767, 65535)}

InitValue ==
    /\ DecIdle
    /\ CmdIdle
    /\ prev = <<>> /\ redo = <<>>
    /\ c8 = 0 /\ nib = Ok(0) /\ hx = Ok(0) /\ rt = Ok(0)
    /\ ReadIdle
    /\ resp = NoResp
    /\ vout = <<>> /\ val2 = VEmpty
    /\ \/ pc = "bytes" /\ vin \in SeqsUpTo(ValueBytes, MaxValue) /\ val = VEmpty
       \/ pc = "value" /\ vin = <<>> /\ val \in NumericValues

\* Value::guess(vin)
Guess ==
    /\ pc = "bytes"
    /\ val' = guess(vin)
    /\ pc' = "guessed"
    /\ UNCHANGED <<decvars, cmdvars, devars, readvars, lib, nibvars, resp, vin, vout, val2>>

\* the guessed value is serialized
SerGuessed ==
    /\ pc = "guessed"
    /\ vout' = ser_value(val)
    /\ pc' = "reser"
    /\ UNCHANGED <<decvars, cmdvars, devars, readvars, lib, nibvars, resp, vin, val, val2>>

\* val.ser(&mut buf)
SerValue ==
    /\ pc = "value"
    /\ vout' = ser_value(val)
    /\ pc' = "ser"
    /\ UNCHANGED <<decvars, cmdvars, devars, readvars, lib, nibvars, resp, vin, val, val2>>

\* Value::guess on the bytes serialized
Reguess ==
    /\ pc = "ser"
    /\ val2' = guess(vout)
    /\ pc' = "reguessed"
    /\ UNCHANGED <<decvars, cmdvars, devars, readvars, lib, nibvars, resp, vin, val, vout>>

NextValue == Guess \/ SerGuessed \/ SerValue \/ Reguess

SpecValue == InitValue /\ [][NextValue]_vars

\* C17: Value::guess(b) is Empty for 0 bytes, U8(b[0]) for 1, the
\* little-endian U16 for 2, the little-endian U32 for 4, and Other(b) with the
\* bytes unchanged for every other length; Value::ser of the guess gives b.
C17_GuessByWidth ==
    /\ pc \in {"guessed", "reser"} =>
          val = CASE Len(vin) = 0 -> VEmpty
                  [] Len(vin) = 1 -> VU8(vin[1])
                  [] Len(vin) = 2 -> VU16(vin[1] + 256 * vin[2])
                  [] Len(vin) = 4 -> VU32(vin[3] + 256 * vin[4], vin[1] + 256 * vin[2])
                  [] OTHER -> VOther(vin)
    /\ pc = "reser" => vout = vin

\* the bytes 01 00 80 FF were guessed as U32 0xFF800001 and serialized back
C17_Witness ==
    /\ pc = "reser"
    /\ vin = <<1, 0, 128, 255>>
    /\ val = VU32(65408, 1)
    /\ vout = vin

\* three and five bytes were kept as Other
C17_WitnessOther ==
    /\ pc = "reser"
    /\ Len(vin) = 5
    /\ val = VOther(vin)

Signed(v) == v.tag \in {"I8", "I16", "I32"}

Negative(v) == IF v.tag = "I32" THEN v.h < 0 ELSE v.n < 0

\* the unsigned variant of the same width
UnsignedTag(v) ==
    CASE v.tag \in {"U8", "I8"} -> "U8"
      [] v.tag \in {"U16", "I16"} -> "U16"
      [] v.tag \in {"U32", "I32"} -> "U32"

\* C18 (as claimed): for every Value of a numeric variant, Value::ser and then
\* Value::guess on the bytes yields a value with the same numeric value.
C18_SameNumber ==
    pc = "reguessed" => (val2.h = val.h /\ val2.n = val.n)

\* C18 (amended): for every Value of a numeric variant, Value::ser and then
\* Value::guess on the bytes yields the unsigned variant of the same width
\* with the same bits: the same numeric value for U8, U16, U32 and for a
\* non-negative I8, I16, I32, and the value plus 2^width for a negative one.
C18_SameBits ==
    pc = "reguessed" =>
        /\ val2.tag = UnsignedTag(val)
        /\ ~Negative(val) => (val2.h = val.h /\ val2.n = val.n)
        /\ Negative(val) =>
              CASE val.tag = "I8" -> val2.n = val.n + 256 /\ val2.h = 0
                [] val.tag = "I16" -> val2.n = val.n + 65536 /\ val2.h = 0
                [] val.tag = "I32" -> val2.n = val.n /\ val2.h = val.h + 65536

\* I16(-2) came back as U16(65534)
C18_Witness ==
    /\ pc = "reguessed"
    /\ val = VI16(-2)
    /\ vout = <<254, 255>>
    /\ val2 = VU16(65534)

\* U32(0xFFFFFFFE) came back as itself
C18_WitnessUnsigned ==
    /\ pc = "reguessed"
    /\ val = VU32(65535, 65534)
    /\ val2 = val

-----------------------------------------------------------------------------
(* nibble and hex as pure functions (specification SpecNibble): each on     *)
(* every byte, and nibble on the digit hex returned.                        *)

InitNibble ==
    /\ DecIdle
    /\ CmdIdle
    /\ prev = <<>> /\ redo = <<>>
    /\ vin = <<>> /\ val = VEmpty /\ vout = <<>> /\ val2 = VEmpty
    /\ resp = NoResp
    /\ c8 \in Byte
    /\ nib = Ok(0) /\ hx = Ok(0) /\ rt = Ok(0)
    /\ ReadIdle
    /\ pc = "byte"

\* nibble(c8)
Nibble ==
    /\ pc = "byte"
    /\ nib' = nibble(c8)
    /\ pc' = "nibble"
    /\ UNCHANGED <<decvars, cmdvars, devars, readvars, lib, valvars, resp, c8, hx, rt>>

\* hex(c8)
Hex ==
    /\ pc = "nibble"
    /\ hx' = hex(c8)
    /\ pc' = "hex"
    /\ UNCHANGED <<decvars, cmdvars, devars, readvars, lib, valvars, resp, c8, nib, rt>>

\* nibble(hex(c8)?)
NibbleOfHex ==
    /\ pc = "hex"
    /\ hx.ok
    /\ rt' = nibble(hx.v)
    /\ pc' = "back"
    /\ UNCHANGED <<decvars, cmdvars, devars, readvars, lib, valvars, resp, c8, nib, hx>>

NextNibble == Nibble \/ Hex \/ NibbleOfHex

SpecNibble == InitNibble /\ [][NextNibble]_vars

\* "0123456789ABCDEF" and "0123456789abcdef"
UpperDigits == <<48, 49, 50, 51, 52, 53, 54, 55, 56, 57, 65, 66, 67, 68, 69, 70>>
LowerDigits == <<48, 49, 50, 51, 52, 53, 54, 55, 56, 57, 97, 98, 99, 100, 101, 102>>

\* the values v of which c is the upper-case or the lower-case digit
DigitValues(c) == {v \in 0..15 : UpperDigits[v + 1] = c \/ LowerDigits[v + 1] = c}

\* C19: for every v in 0..15, hex(v) is the upper-case ASCII hex digit of v
\* and nibble(hex(v)) = v; nibble gives 'a'..'f' the value of 'A'..'F'; for
\* every byte that is not an ASCII hex digit nibble returns Err(Hex(byte)),
\* and for every v above 15 hex returns Err(Hex(v)).
C19_NibbleCodec ==
    /\ pc \in {"nibble", "hex", "back"} =>
          IF DigitValues(c8) = {} THEN nib = Err("Hex", c8)
          ELSE nib.ok /\ nib.v \in DigitValues(c8)
    /\ pc \in {"hex", "back"} =>
          IF c8 <= 15 THEN hx = Ok(UpperDigits[c8 + 1]) ELSE hx = Err("Hex", c8)
    /\ pc = "hex" => (hx.ok <=> c8 <= 15)
    /\ pc = "back" => rt = Ok(c8)

\* hex(11) = 'B' and nibble('B') = 11
C19_Witness ==
    /\ pc = "back"
    /\ c8 = 11
    /\ hx = Ok(66)
    /\ rt = Ok(11)

\* nibble('f') = 15, and hex('f') is an error
C19_WitnessLower ==
    /\ pc = "hex"
    /\ c8 = 102
    /\ nib = Ok(15)
    /\ hx = Err("Hex", 102)

\* nibble('g') is Err(Hex('g'))
C19_WitnessNotHex ==
    /\ pc = "nibble"
    /\ c8 = 103
    /\ nib = Err("Hex", 103)

-----------------------------------------------------------------------------
(* FrameDe::read on a reader (specification SpecRead).  The reader holds    *)
(* any sequence of up to MaxRead bytes of Alphabet; the caller of a decoder *)
(* made by de() on a fresh Frame calls read(), or reads one byte itself and *)
(* pushes it as main.rs does, in any order.                                 *)

InitRead ==
    /\ DecIdle
    /\ CmdIdle
    /\ prev = <<>> /\ redo = <<>>
    /\ vin = <<>> /\ val = VEmpty /\ vout = <<>> /\ val2 = VEmpty
    /\ c8 = 0 /\ nib = Ok(0) /\ hx = Ok(0) /\ rt = Ok(0)
    /\ rd \in SeqsUpTo(Alphabet, MaxRead)
    /\ rres = "none" /\ rn = 0
    /\ lib = LibDefault
    /\ resp = NoResp
    /\ pc = "read"

\* de.read(&mut reader)
ReadCall ==
    /\ pc = "read"
    /\ LET r == read(state, data, rd, 0)
       IN  /\ state' = r.state
           /\ data' = r.data
           /\ rd' = r.rest
           /\ rres' = r.res
           /\ rn' = r.n
           /\ fed' = fed \o SubSeq(rd, 1, r.n)
           /\ ret' = IF r.n = 0 THEN ret
                     ELSE IF r.res = "err" THEN Err("Hex", rd[r.n])
                     ELSE Ok(0)
           /\ nerr' = IF r.res = "err" THEN nerr + 1 ELSE nerr
    /\ UNCHANGED <<unit, gunit, gwf, gend, nfree, mk, cmdvars, devars, valvars, nibvars,
                   lib, resp, pc>>

\* the caller reads one byte from the reader and pushes it
PushCall ==
    /\ pc = "read"
    /\ rd # <<>>
    /\ LET p == push(state, data, Head(rd))
       IN  /\ state' = p.state
           /\ data' = p.data
           /\ ret' = p.ret
           /\ nerr' = IF p.ret.ok THEN nerr ELSE nerr + 1
    /\ fed' = Append(fed, Head(rd))
    /\ rd' = Tail(rd)
    /\ rres' = "none"
    /\ rn' = 0
    /\ UNCHANGED <<unit, gunit, gwf, gend, nfree, mk, cmdvars, devars, valvars, nibvars,
                   lib, resp, pc>>

NextRead == ReadCall \/ PushCall

SpecRead == InitRead /\ [][NextRead]_vars

\* C23 (as claimed): every FrameDe::read that returns Ok(true) has taken at
\* least one byte from the reader and leaves in the buffer a frame completed
\* during that call; Ok(false) is returned only when the reader is at its end
\* before a frame completes.  This holds also for a freshly created decoder
\* and for a decoder that has just completed a frame.
C23_ReadDeliversFrame ==
    /\ rres = "true" => (rn >= 1 /\ state = "Start" /\ data # <<>>)
    /\ rres = "false" => (rd = <<>> /\ state # "Start")

\* the part of C23 the code satisfies: a read() on a decoder in mid-frame
C23_HoldsInMidFrame ==
    /\ (rres = "true" /\ rn >= 1) => (state = "Start" /\ data # <<>>)
    /\ rres = "false" => (rd = <<>> /\ state # "Start")

-----------------------------------------------------------------------------
(* The decoders of lib.rs and of vedirect.rs fed the same bytes             *)
(* (specification SpecBoth): up to MaxBoth bytes of Alphabet, ':' whenever  *)
(* the decoder is in Start; one other byte in Start ends the hex stream.    *)

InitBoth ==
    /\ DecIdle
    /\ CmdIdle
    /\ AuxIdle
    /\ resp = NoResp
    /\ pc = "both"

\* lib.rs Frame::push(c) and vedirect.rs FrameDe::push(c)
PushPair(c) ==
    LET p == push(state, data, c)
    IN  /\ state' = p.state
        /\ data' = p.data
        /\ ret' = p.ret
        /\ nerr' = IF p.ret.ok THEN nerr ELSE nerr + 1
        /\ fed' = Append(fed, c)
        /\ lib' = lib_push(lib, c)
        /\ nfree' = nfree + 1
        /\ UNCHANGED <<unit, gunit, gwf, gend, mk, cmdvars, devars, valvars, nibvars,
                       readvars, resp>>

\* a byte of the hex stream
PushBoth ==
    /\ pc = "both"
    /\ nfree < MaxBoth
    /\ \E c \in Alphabet :
          /\ state = "Start" => c = Colon
          /\ PushPair(c)
    /\ pc' = pc

\* a byte other than ':' while in Start
PushOther ==
    /\ pc = "both"
    /\ nfree < MaxBoth
    /\ state = "Start"
    /\ \E c \in Alphabet \ {Colon} : PushPair(c)
    /\ pc' = "text"

NextBoth == PushBoth \/ PushOther

SpecBoth == InitBoth /\ [][NextBoth]_vars

\* C25: on every byte sequence in which every byte fed while in Start is ':',
\* lib.rs Frame::push and vedirect.rs FrameDe::push return an error at the
\* same positions and return to Start at the same positions, and at each
\* completion vedirect's buffer is [lib id] followed by lib data and its
\* checksum() is lib's check; a byte other than ':' in Start changes nothing
\* in lib.rs and puts vedirect.rs in Text.
C25_SnapshotsAgree ==
    /\ []((pc = "both" /\ fed # <<>>) =>
            /\ ret.ok <=> lib.ret.ok
            /\ (state = "Start") <=> (lib.state = "Start")
            /\ state = "Start" =>
                  (data = <<lib.id>> \o lib.data /\ checksum(data) = lib.check))
    /\ [][pc' = "text" => (lib' = lib /\ state' = "Text" /\ ret'.ok)]_vars

\* ":A:0f\n": both rejected the second ':' and both completed the frame A 0F
C25_Witness ==
    /\ pc = "both"
    /\ fed = <<58, 65, 58, 48, 102, 10>>
    /\ nerr = 1
    /\ state = "Start"
    /\ data = <<10, 15>>
    /\ lib.state = "Start"
    /\ lib.id = 10
    /\ lib.data = <<15>>
    /\ lib.check = 25

\* a '0' after a completed frame: lib.rs is still in Start with the frame,
\* vedirect.rs is in Text
C25_WitnessText ==
    /\ pc = "text"
    /\ fed = <<58, 102, 10, 48>>
    /\ state = "Text"
    /\ data = <<48>>
    /\ lib.state = "Start"
    /\ lib.id = 15

====
